---- MODULE Spec2Model ----
(***************************************************************************)
(* The linear workflow of workflows/workflow_template.py (HelloFlow): a    *)
(* pipeline record per pipeline id, two regular steps and the finalize     *)
(* step, driven by the route handlers init, step_NN, step_NN_submit,       *)
(* finalize_submit, revert, finalize and unfinalize.                       *)
(***************************************************************************)
EXTENDS Integers, Sequences, FiniteSets, TLC

\* Number of requests served in one behaviour; the request counter is also
\* the clock that datetime.now() reads.
MaxClock == 4

\* The same, for the behaviours with a second client, a validate_step that
\* rejects values, or notices that fail to arrive.
MaxClockEnv == 3

APP_NAME == "hello"

PRESERVE_REFILL == TRUE

\* Python's None, and a form field that the request does not carry.
None == "<None>"

\* Step = namedtuple('Step', ['id', 'done', 'show', 'refill', 'transform'])
Step(id, done, show, refill, transform) ==
    [id |-> id, done |-> done, show |-> show, refill |-> refill, transform |-> transform]

\* self.steps
steps ==
    << Step("step_01", "name", "Your Name", TRUE, None),
       Step("step_02", "greeting", "Hello Message", FALSE, "Hello "),
       Step("finalize", "finalized", "Finalize", FALSE, None) >>

StepIds == {steps[i].id : i \in 1..Len(steps)}

\* self.steps_indices (Python's 0-based positions)
steps_indices == [s \in StepIds |-> (CHOOSE i \in 1..Len(steps) : steps[i].id = s) - 1]

\* steps[i] with Python's 0-based index
StepAt(i) == steps[i + 1]

\* steps[:-1], the regular steps
RegularSteps == {steps[i] : i \in 1..(Len(steps) - 1)}

(***************************************************************************)
(* Python dicts: functions whose domain is the set of keys present.        *)
(***************************************************************************)
EmptyDict == [x \in {} |-> None]

Get(d, k, default) == IF k \in DOMAIN d THEN d[k] ELSE default

Put(d, k, v) == [x \in (DOMAIN d) \cup {k} |-> IF x = k THEN v ELSE d[x]]

Del(d, k) == [x \in (DOMAIN d) \ {k} |-> d[x]]

\* Python truthiness of a string or None
Truthy(v) == v # "" /\ v # None

(***************************************************************************)
(* Inputs of the requests.                                                 *)
(***************************************************************************)
\* values typed into a step's field
FieldValues == {"", "Ada", "Grace"}

\* the forms posted to init: with or without a pipeline_id field
InitForms == {EmptyDict} \cup {("pipeline_id" :> v) : v \in {"", "p1", "p2"}}

\* the forms posted to revert: with or without a step_id field
RevertForms == {EmptyDict} \cup {("step_id" :> v) : v \in StepIds \cup {"", "bogus"}}

\* the forms posted to a step's submit route: with or without the step's field
SubmitForms(step) == {EmptyDict} \cup {(step.done :> v) : v \in FieldValues}

\* the forms posted to jump_to_step: with or without a step_id field
JumpForms == {EmptyDict} \cup {("step_id" :> v) : v \in {"step_01", "bogus"}}

\* every pipeline id a request can name
PipelineIds == {"unknown", "untitled", "", "p1", "p2"}

RegularIds == {s.id : s \in RegularSteps}

VARIABLES
    store,      \* the pipeline table: pipeline id -> state document
    db,         \* the server-side session dict (db["pipeline_id"], db["step_id"])
    clock,      \* requests served so far; the value datetime.now() returns
    last,       \* the last request served: handler, arguments, returned view
    prev,       \* the request served before the last
    pre,        \* the pipeline table before the last request
    submitted,  \* history: (pipeline, step) submitted and not reverted since
    kept,       \* history: as submitted, also dropped by an upstream submit
    env,        \* what surrounds the workflow: the values its validate_step
                \* rejects, the clients, whether notices can fail to arrive,
                \* the number of requests served
    issuer,     \* history: the client that sent the last request
    owner,      \* history: client -> the pipeline id of its latest init
    notice,     \* history: what became of the last request's notice
    reqs,       \* the requests running at the same time: request -> its
                \* operation and the await it has reached
    chain,      \* the browser following the placeholders: the responses it got
                \* in the current chain and the step it is about to fetch
    chat        \* the chat of pipulate.py: conversation, users, the input
                \* group each browser shows, and each connection's ws handler

vars == <<store, db, clock, last, prev, pre, submitted, kept, env, issuer, owner, notice, reqs,
          chain, chat>>

\* conversation as the module creates it (lines 31-36)
conversation == << [role |-> "system", content |-> "You are a Todo App with attitude."] >>

\* most websockets opened in one run
MaxConns == 3

\* the websockets browsers open, numbered in the order they are opened where
\* str(id(ws)) names them; a browser that connects again does so with a new
\* websocket
Conns == 1..MaxConns

\* a connection whose ws handler is not running
Idle == [pc |-> "idle", msg |-> "", response |-> "", i |-> 0, size |-> 0, sent |-> {}]

\* the chat before any browser connects: users = {} (line 460), kept in the
\* order of insertion as the dict keeps it
NoChat ==
    [conversation |-> conversation,
     users |-> << >>,
     input |-> [c \in Conns |-> "none"],
     msg_list |-> [c \in Conns |-> ""],
     ws |-> [c \in Conns |-> Idle],
     received |-> 0,
     raised |-> {}]

\* no chain of fetches is being followed
NoChain == [views |-> << >>, pending |-> None]

\* HelloFlow as it stands: validate_step accepts every value, one browser,
\* every notice arrives
HelloEnv == [rejects |-> {}, clients |-> {"c1"}, lossy |-> FALSE, budget |-> MaxClock]

(***************************************************************************)
(* The Pipeline State Store (pipulate's helper object `pip`).              *)
(***************************************************************************)
\* pip.read_state(pipeline_id): the empty document when none is stored
read_state(st, pipeline_id) == Get(st, pipeline_id, EmptyDict)

\* pip.write_state(pipeline_id, state): replaces the stored document
write_state(st, pipeline_id, state) == Put(st, pipeline_id, state)

\* pip.get_step_data(pipeline_id, step_id, default)
get_step_data(st, pipeline_id, step_id, default) ==
    Get(read_state(st, pipeline_id), step_id, default)

\* pip.initialize_if_missing(pipeline_id, initial): creates the empty record
initialize_if_missing(st, pipeline_id) ==
    IF pipeline_id \in DOMAIN st THEN st ELSE write_state(st, pipeline_id, EmptyDict)

RECURSIVE DelAll(_, _)
DelAll(d, ks) ==
    IF ks = {} THEN d
    ELSE LET k == CHOOSE x \in ks : TRUE IN DelAll(Del(d, k), ks \ {k})

\* pip.clear_steps_from(pipeline_id, step_id, steps): removes the data of the
\* step and of every step after it; an unknown step id changes nothing
clear_steps_from(st, pipeline_id, step_id) ==
    IF step_id \notin StepIds THEN st
    ELSE LET state == read_state(st, pipeline_id)
             gone == {s \in StepIds : steps_indices[s] >= steps_indices[step_id]}
         IN write_state(st, pipeline_id, DelAll(state, gone \cap DOMAIN state))

(***************************************************************************)
(* Core workflow methods.                                                  *)
(***************************************************************************)
\* validate_step: always valid by default (env.rejects is empty); a workflow
\* copied from the template puts its own test here
validate_step(step_id, value) ==
    IF value \in env.rejects THEN <<FALSE, "invalid">> ELSE <<TRUE, "">>

\* process_step: the value unchanged
process_step(step_id, value) == value

\* db.get("pipeline_id", "unknown")
pipeline_id_of(d) == Get(d, "pipeline_id", "unknown")

\* handle_revert without the write of the _revert_target marker
handle_revert_store_nomark(st, pipeline_id, step_id) ==
    IF ~Truthy(step_id) THEN st
    ELSE LET st1 == clear_steps_from(st, pipeline_id, step_id)
             state == read_state(st1, pipeline_id)
         IN write_state(st1, pipeline_id, state)

\* handle_revert without the call of clear_steps_from
handle_revert_store_noclear(st, pipeline_id, step_id) ==
    IF ~Truthy(step_id) THEN st
    ELSE LET state == read_state(st, pipeline_id)
         IN write_state(st, pipeline_id, Put(state, "_revert_target", step_id))

\* handle_revert taking a marker that already names the step as a request to
\* leave the revert: the marker is removed
handle_revert_store_toggle(st, pipeline_id, step_id) ==
    IF ~Truthy(step_id) THEN st
    ELSE LET st1 == clear_steps_from(st, pipeline_id, step_id)
             state == read_state(st1, pipeline_id)
         IN IF Get(state, "_revert_target", None) = step_id
            THEN write_state(st1, pipeline_id, Del(state, "_revert_target"))
            ELSE write_state(st1, pipeline_id, Put(state, "_revert_target", step_id))

\* the pipeline table handle_revert leaves (lines 113-123)
handle_revert_store(st, pipeline_id, step_id) ==
    IF ~Truthy(step_id) THEN st
    ELSE LET st1 == clear_steps_from(st, pipeline_id, step_id)
             state == read_state(st1, pipeline_id)
         IN write_state(st1, pipeline_id, Put(state, "_revert_target", step_id))

\* handle_step_submit without the call of clear_steps_from
handle_step_submit_store_noclear(st, pipeline_id, step_id, form) ==
    LET step == StepAt(steps_indices[step_id])
    IN IF step.done = "finalized"
       THEN LET state == read_state(st, pipeline_id)
            IN write_state(st, pipeline_id, Put(state, step_id, (step.done :> TRUE)))
       ELSE LET user_val == Get(form, step.done, "")
                valid == validate_step(step_id, user_val)
            IN IF ~valid[1] THEN st
               ELSE LET processed_val == process_step(step_id, user_val)
                        state == read_state(st, pipeline_id)
                        state2 == Put(state, step_id, (step.done :> processed_val))
                        state3 == IF "_revert_target" \in DOMAIN state2
                                  THEN Del(state2, "_revert_target") ELSE state2
                    IN write_state(st, pipeline_id, state3)

\* handle_step_submit clearing the downstream steps before it validates
handle_step_submit_store_clearfirst(st, pipeline_id, step_id, form) ==
    LET step == StepAt(steps_indices[step_id])
    IN IF step.done = "finalized"
       THEN LET state == read_state(st, pipeline_id)
            IN write_state(st, pipeline_id, Put(state, step_id, (step.done :> TRUE)))
       ELSE LET user_val == Get(form, step.done, "")
                valid == validate_step(step_id, user_val)
                st1 == clear_steps_from(st, pipeline_id, step_id)
            IN IF ~valid[1] THEN st1
               ELSE LET processed_val == process_step(step_id, user_val)
                        state == read_state(st1, pipeline_id)
                        state2 == Put(state, step_id, (step.done :> processed_val))
                        state3 == IF "_revert_target" \in DOMAIN state2
                                  THEN Del(state2, "_revert_target") ELSE state2
                    IN write_state(st1, pipeline_id, state3)

\* handle_step_submit removing the marker only when it names the submitted step
handle_step_submit_store_keepmarker(st, pipeline_id, step_id, form) ==
    LET step == StepAt(steps_indices[step_id])
    IN IF step.done = "finalized"
       THEN LET state == read_state(st, pipeline_id)
            IN write_state(st, pipeline_id, Put(state, step_id, (step.done :> TRUE)))
       ELSE LET user_val == Get(form, step.done, "")
                valid == validate_step(step_id, user_val)
            IN IF ~valid[1] THEN st
               ELSE LET processed_val == process_step(step_id, user_val)
                        st1 == clear_steps_from(st, pipeline_id, step_id)
                        state == read_state(st1, pipeline_id)
                        state2 == Put(state, step_id, (step.done :> processed_val))
                        state3 == IF Get(state2, "_revert_target", None) = step_id
                                  THEN Del(state2, "_revert_target") ELSE state2
                    IN write_state(st1, pipeline_id, state3)

\* handle_step_submit turning away a step that has data and is not the
\* revert target
handle_step_submit_store_reject(st, pipeline_id, step_id, form) ==
    LET step == StepAt(steps_indices[step_id])
    IN IF step.done = "finalized"
       THEN LET state == read_state(st, pipeline_id)
            IN write_state(st, pipeline_id, Put(state, step_id, (step.done :> TRUE)))
       ELSE LET user_val == Get(form, step.done, "")
                valid == validate_step(step_id, user_val)
                old == read_state(st, pipeline_id)
            IN IF ~valid[1] THEN st
               ELSE IF step_id \in DOMAIN old /\ Get(old, "_revert_target", None) # step_id
               THEN st
               ELSE LET processed_val == process_step(step_id, user_val)
                        st1 == clear_steps_from(st, pipeline_id, step_id)
                        state == read_state(st1, pipeline_id)
                        state2 == Put(state, step_id, (step.done :> processed_val))
                        state3 == IF "_revert_target" \in DOMAIN state2
                                  THEN Del(state2, "_revert_target") ELSE state2
                    IN write_state(st1, pipeline_id, state3)

\* handle_step_submit writing a new document that holds the submitted step only
handle_step_submit_store_fresh(st, pipeline_id, step_id, form) ==
    LET step == StepAt(steps_indices[step_id])
    IN IF step.done = "finalized"
       THEN LET state == read_state(st, pipeline_id)
            IN write_state(st, pipeline_id, Put(state, step_id, (step.done :> TRUE)))
       ELSE LET user_val == Get(form, step.done, "")
                valid == validate_step(step_id, user_val)
            IN IF ~valid[1] THEN st
               ELSE LET processed_val == process_step(step_id, user_val)
                        st1 == clear_steps_from(st, pipeline_id, step_id)
                    IN write_state(st1, pipeline_id, (step_id :> (step.done :> processed_val)))

\* the pipeline table handle_step_submit leaves (lines 272-301)
handle_step_submit_store(st, pipeline_id, step_id, form) ==
    LET step == StepAt(steps_indices[step_id])
    IN IF step.done = "finalized"
       THEN LET state == read_state(st, pipeline_id)
            IN write_state(st, pipeline_id, Put(state, step_id, (step.done :> TRUE)))
       ELSE LET user_val == Get(form, step.done, "")
                valid == validate_step(step_id, user_val)
            IN IF ~valid[1] THEN st
               ELSE LET processed_val == process_step(step_id, user_val)
                        st1 == clear_steps_from(st, pipeline_id, step_id)
                        state == read_state(st1, pipeline_id)
                        state2 == Put(state, step_id, (step.done :> processed_val))
                        state3 == IF "_revert_target" \in DOMAIN state2
                                  THEN Del(state2, "_revert_target") ELSE state2
                    IN write_state(st1, pipeline_id, state3)


\* the view handle_step returns (lines 202-270)
\* db[key] of the session store, whose class is not part of this file: a
\* session without a pipeline id stands for the pipeline "unknown" (spec 4.3)
db_getitem(d, key) == IF key \in DOMAIN d THEN d[key] ELSE "unknown"

\* get_suggestion (lines 99-111) for a workflow with the steps wsteps; the
\* transform lambda name: f"Hello {name}" is the prefix it puts before its
\* argument
get_suggestion_of(wsteps, st, d, step_id) ==
    LET idx == CHOOSE i \in 1..Len(wsteps) : wsteps[i].id = step_id
        step == wsteps[idx]
    IN IF step.transform = None THEN ""
       ELSE IF idx - 1 < 1 THEN ""
       ELSE LET prev_step_id == wsteps[idx - 1].id
                prev_data == get_step_data(st, db_getitem(d, "pipeline_id"), prev_step_id,
                                           EmptyDict)
                prev_word == Get(prev_data, "name", "")
            IN IF Truthy(prev_word) THEN step.transform \o prev_word ELSE ""

\* display_value of handle_step (line 254) for a workflow with the steps wsteps
display_value_of(wsteps, st, d, step_id) ==
    LET step == wsteps[CHOOSE i \in 1..Len(wsteps) : wsteps[i].id = step_id]
        step_data == get_step_data(st, pipeline_id_of(d), step_id, EmptyDict)
        user_val == Get(step_data, step.done, "")
    IN IF step.refill /\ Truthy(user_val) /\ PRESERVE_REFILL THEN user_val
       ELSE get_suggestion_of(wsteps, st, d, step_id)

\* handle_step testing the revert marker before the lock
handle_step_view_markerfirst(st, d, step_id) ==
    LET step == StepAt(steps_indices[step_id])
        pipeline_id == pipeline_id_of(d)
        state == read_state(st, pipeline_id)
        step_data == get_step_data(st, pipeline_id, step_id, EmptyDict)
        user_val == Get(step_data, step.done, "")
        finalize_data == get_step_data(st, pipeline_id, "finalize", EmptyDict)
    IN IF step.done = "finalized"
       THEN IF "finalized" \in DOMAIN finalize_data
            THEN "Pipeline Finalized" ELSE "Finalize Pipeline"
       ELSE IF Get(state, "_revert_target", None) = step_id THEN "input"
       ELSE IF "finalized" \in DOMAIN finalize_data THEN "locked"
       ELSE IF Truthy(user_val) THEN "completed"
       ELSE "input"

handle_step_view(st, d, step_id) ==
    LET step == StepAt(steps_indices[step_id])
        pipeline_id == pipeline_id_of(d)
        state == read_state(st, pipeline_id)
        step_data == get_step_data(st, pipeline_id, step_id, EmptyDict)
        user_val == Get(step_data, step.done, "")
        finalize_data == get_step_data(st, pipeline_id, "finalize", EmptyDict)
    IN IF step.done = "finalized"
       THEN IF "finalized" \in DOMAIN finalize_data
            THEN "Pipeline Finalized" ELSE "Finalize Pipeline"
       ELSE IF "finalized" \in DOMAIN finalize_data THEN "locked"
       ELSE IF Truthy(user_val) /\ Get(state, "_revert_target", None) # step_id
            THEN "completed"
       ELSE "input"

\* the value in the view handle_step returns: the stored value in the locked
\* and the completed view (lines 243, 250), display_value in the input form
\* (line 262)
handle_step_shown(st, d, step_id) ==
    LET step == StepAt(steps_indices[step_id])
        step_data == get_step_data(st, pipeline_id_of(d), step_id, EmptyDict)
        user_val == Get(step_data, step.done, "")
        view == handle_step_view(st, d, step_id)
    IN IF view \in {"locked", "completed"} THEN user_val
       ELSE IF view = "input" THEN display_value_of(steps, st, d, step_id)
       ELSE None

\* the step whose fetch the returned view triggers on load: next_step_id in
\* the locked and the completed view (lines 244, 251), none in the input form
\* (line 268 has no hx_get)
handle_step_next(st, d, step_id) ==
    LET step_index == steps_indices[step_id]
        next_step_id == IF step_index < Len(steps) - 1 THEN StepAt(step_index + 1).id ELSE None
    IN IF handle_step_view(st, d, step_id) \in {"locked", "completed"}
       THEN next_step_id ELSE None

\* all_steps_complete of finalize's GET branch (lines 366-370)
all_steps_complete(st, pipeline_id) ==
    \A step \in RegularSteps :
        Truthy(Get(get_step_data(st, pipeline_id, step.id, EmptyDict), step.done, None))

\* the view finalize returns (lines 349-398)
finalize_view(st, pipeline_id, method) ==
    LET finalize_step == steps[Len(steps)]
        finalize_data == get_step_data(st, pipeline_id, finalize_step.id, EmptyDict)
    IN IF method = "GET"
       THEN IF finalize_step.done \in DOMAIN finalize_data THEN "All Cards Complete"
            ELSE IF all_steps_complete(st, pipeline_id) THEN "Ready to finalize?"
            ELSE "Nothing to finalize yet."
       ELSE "placeholders"

\* finalize setting the lock whatever the request method
finalize_store_anymethod(st, pipeline_id, method, now) ==
    LET state == read_state(st, pipeline_id)
        state2 == Put(state, "finalize", ("finalized" :> TRUE))
        state3 == Put(state2, "updated", now)
    IN write_state(st, pipeline_id, state3)

\* finalize writing a fresh document instead of the one it read
finalize_store_fresh(st, pipeline_id, method, now) ==
    IF method = "GET" THEN st
    ELSE LET state2 == Put(EmptyDict, "finalize", ("finalized" :> TRUE))
             state3 == Put(state2, "updated", now)
         IN write_state(st, pipeline_id, state3)

\* the pipeline table finalize leaves (lines 387-392)
finalize_store(st, pipeline_id, method, now) ==
    IF method = "GET" THEN st
    ELSE LET state == read_state(st, pipeline_id)
             state2 == Put(state, "finalize", ("finalized" :> TRUE))
             state3 == Put(state2, "updated", now)
         IN write_state(st, pipeline_id, state3)

\* unfinalize removing the _revert_target marker along with the lock
unfinalize_store_dropmarker(st, pipeline_id) ==
    LET state == read_state(st, pipeline_id)
        state2 == IF "finalize" \in DOMAIN state THEN Del(state, "finalize") ELSE state
        state3 == IF "_revert_target" \in DOMAIN state2
                  THEN Del(state2, "_revert_target") ELSE state2
    IN write_state(st, pipeline_id, state3)

\* the pipeline table unfinalize leaves (lines 403-406)
unfinalize_store(st, pipeline_id) ==
    LET state == read_state(st, pipeline_id)
        state2 == IF "finalize" \in DOMAIN state THEN Del(state, "finalize") ELSE state
    IN write_state(st, pipeline_id, state2)

\* init testing the lock before the completeness of the steps
init_status_lockfirst(state) ==
    LET complete == \A step \in RegularSteps :
                        step.id \in DOMAIN state /\ step.done \in DOMAIN state[step.id]
        is_finalized == "finalize" \in DOMAIN state /\ "finalized" \in DOMAIN state["finalize"]
    IN IF is_finalized THEN "Workflow is complete and finalized."
       ELSE IF complete THEN "Workflow is complete but not finalized."
       ELSE IF ~(\E i \in 1..Len(steps) : steps[i].id \in DOMAIN state)
            THEN "Please complete each step in sequence."
            ELSE None

\* the status notice init sends after the id message (lines 168-194), None
\* when it sends none
init_status(state) ==
    LET complete == \A step \in RegularSteps :
                        step.id \in DOMAIN state /\ step.done \in DOMAIN state[step.id]
        is_finalized == "finalize" \in DOMAIN state /\ "finalized" \in DOMAIN state["finalize"]
    IN IF complete
       THEN IF is_finalized THEN "Workflow is complete and finalized."
            ELSE "Workflow is complete but not finalized."
       ELSE IF ~(\E i \in 1..Len(steps) : steps[i].id \in DOMAIN state)
            THEN "Please complete each step in sequence."
            ELSE None

\* init writing the empty record whether or not one is stored
init_store_fresh(st, form) ==
    write_state(st, Get(form, "pipeline_id", "untitled"), EmptyDict)

\* the pipeline table init leaves (lines 161-166)
init_store(st, form) ==
    initialize_if_missing(st, Get(form, "pipeline_id", "untitled"))

\* the session dict jump_to_step leaves (lines 416-418)
jump_to_step_db(d, form) == Put(d, "step_id", Get(form, "step_id", None))

\* pip.rebuild(app_name, steps): the container of the workflow, built anew
rebuild == "rebuild"

\* jump_to_step setting the revert marker of the record as well
jump_to_step_store_mark(st, d, form) ==
    write_state(st, pipeline_id_of(d),
                Put(read_state(st, pipeline_id_of(d)), "_revert_target",
                    Get(form, "step_id", None)))

\* the pipeline table jump_to_step leaves (lines 414-419): it calls neither
\* write_state nor clear_steps_from
jump_to_step_store(st, d, form) == st

\* what can become of a notice handed to the side channel
Deliveries == IF env.lossy THEN {"delivered", "failed"} ELSE {"delivered"}

\* simulated_stream raising when the notice does not arrive
simulated_stream_raising(delivery) == IF delivery = "failed" THEN "raised" ELSE "sent"

\* pip.simulated_stream(message): a notice that fails to arrive is dropped,
\* the caller is not told
simulated_stream(delivery) == "sent"

\* the view a handler returns after its notices: an exception raised by
\* simulated_stream is not caught by any handler and replaces the view
Returned(delivery, view) ==
    IF simulated_stream(delivery) = "raised" THEN "exception" ELSE view

(***************************************************************************)
(* History kept for the properties.                                        *)
(***************************************************************************)
Request(op, pipeline_id, step_id, val, view) ==
    [op |-> op, pid |-> pipeline_id, step |-> step_id, val |-> val, view |-> view,
     shown |-> None, next |-> None, status |-> None]

\* the (pipeline, step) pairs of the regular steps from step_id on
FromStep(pipeline_id, step_id) ==
    IF step_id \notin StepIds THEN {}
    ELSE {<<pipeline_id, s>> : s \in {r \in RegularIds : steps_indices[r] >= steps_indices[step_id]}}

\* the (pipeline, step) pairs of the regular steps after step_id
AfterStep(pipeline_id, step_id) == FromStep(pipeline_id, step_id) \ {<<pipeline_id, step_id>>}

(***************************************************************************)
(* The state machine: one action per route handler.                        *)
(***************************************************************************)
Init ==
    /\ store = EmptyDict
    /\ db = EmptyDict
    /\ clock = 0
    /\ last = Request("start", None, None, None, None)
    /\ prev = Request("start", None, None, None, None)
    /\ pre = EmptyDict
    /\ submitted = {}
    /\ kept = {}
    /\ env = HelloEnv
    /\ issuer = None
    /\ owner = EmptyDict
    /\ notice = "none"
    /\ reqs = EmptyDict
    /\ chain = NoChain
    /\ chat = NoChat

\* a request arrives from one of the clients and is served at the next clock
\* reading
Tick ==
    /\ clock < env.budget
    /\ clock' = clock + 1
    /\ pre' = store
    /\ prev' = last
    /\ issuer' \in env.clients
    /\ UNCHANGED <<env, reqs, chain, chat>>

\* POST /hello/init
init(form) ==
    \E d \in Deliveries :
        /\ Tick
        /\ db' = Put(db, "pipeline_id", Get(form, "pipeline_id", "untitled"))
        /\ store' = init_store(store, form)
        /\ last' = [Request("init", Get(form, "pipeline_id", "untitled"), None,
                            Get(form, "pipeline_id", None), Returned(d, "placeholders"))
                        EXCEPT !.status =
                            init_status(read_state(init_store(store, form),
                                                   Get(form, "pipeline_id", "untitled")))]
        /\ owner' = Put(owner, issuer', Get(form, "pipeline_id", "untitled"))
        /\ notice' = d
        /\ UNCHANGED <<submitted, kept>>

\* GET /hello/step_01, /hello/step_02 (the routes of lines 78-81; no route
\* leads to handle_step with the finalize step)
handle_step(step_id) ==
    \E d \in Deliveries :
        LET view == handle_step_view(store, db, step_id)
            shown == handle_step_shown(store, db, step_id)
            next == handle_step_next(store, db, step_id)
        IN /\ Tick
           /\ IF view = "input"
              THEN /\ last' = [Request("step", pipeline_id_of(db), step_id, None,
                                       Returned(d, view))
                                   EXCEPT !.shown = shown, !.next = next]
                   /\ notice' = d
              ELSE /\ last' = [Request("step", pipeline_id_of(db), step_id, None, view)
                                   EXCEPT !.shown = shown, !.next = next]
                   /\ notice' = "none"
           /\ UNCHANGED <<store, db, submitted, kept, owner>>

\* POST /hello/step_01_submit, /hello/step_02_submit, /hello/finalize_submit
handle_step_submit(step_id, form) ==
    \E d \in Deliveries :
        LET step == StepAt(steps_indices[step_id])
            pipeline_id == pipeline_id_of(db)
            user_val == Get(form, step.done, "")
            valid == validate_step(step_id, user_val)
        IN /\ Tick
           /\ store' = handle_step_submit_store(store, pipeline_id, step_id, form)
           /\ IF step.done = "finalized"
              THEN /\ last' = Request("finalize_submit", pipeline_id, step_id, None,
                                      Returned(d, "placeholders"))
                   /\ notice' = d
                   /\ UNCHANGED <<submitted, kept>>
              ELSE IF ~valid[1]
              THEN /\ last' = Request("submit", pipeline_id, step_id, user_val, "error")
                   /\ notice' = "none"
                   /\ UNCHANGED <<submitted, kept>>
              ELSE /\ last' = Request("submit", pipeline_id, step_id, user_val,
                                      Returned(d, "revert_control"))
                   /\ notice' = d
                   /\ submitted' = submitted \cup {<<pipeline_id, step_id>>}
                   /\ kept' = (kept \ AfterStep(pipeline_id, step_id)) \cup {<<pipeline_id, step_id>>}
           /\ UNCHANGED <<db, owner>>

\* POST /hello/revert
handle_revert(form) ==
    \E d \in Deliveries :
        LET step_id == Get(form, "step_id", None)
            pipeline_id == pipeline_id_of(db)
        IN /\ Tick
           /\ store' = handle_revert_store(store, pipeline_id, step_id)
           /\ IF ~Truthy(step_id)
              THEN /\ last' = Request("revert", pipeline_id, step_id, None, "Error: No step specified")
                   /\ notice' = "none"
                   /\ UNCHANGED <<submitted, kept>>
              ELSE /\ last' = Request("revert", pipeline_id, step_id, None,
                                      Returned(d, "placeholders"))
                   /\ notice' = d
                   /\ submitted' = submitted \ FromStep(pipeline_id, step_id)
                   /\ kept' = kept \ FromStep(pipeline_id, step_id)
           /\ UNCHANGED <<db, owner>>

\* GET and POST /hello/finalize
finalize(method) ==
    \E d \in Deliveries :
        LET pipeline_id == pipeline_id_of(db)
        IN /\ Tick
           /\ store' = finalize_store(store, pipeline_id, method, clock)
           /\ IF method = "GET"
              THEN /\ last' = Request("finalize", pipeline_id, None, method,
                                      finalize_view(store, pipeline_id, method))
                   /\ notice' = "none"
              ELSE /\ last' = Request("finalize", pipeline_id, None, method,
                                      Returned(d, finalize_view(store, pipeline_id, method)))
                   /\ notice' = d
           /\ UNCHANGED <<db, submitted, kept, owner>>

\* POST /hello/unfinalize
unfinalize ==
    \E d \in Deliveries :
        LET pipeline_id == pipeline_id_of(db)
        IN /\ Tick
           /\ store' = unfinalize_store(store, pipeline_id)
           /\ last' = Request("unfinalize", pipeline_id, None, None, Returned(d, "placeholders"))
           /\ notice' = d
           /\ UNCHANGED <<db, submitted, kept, owner>>

\* POST /hello/jump_to_step
jump_to_step(form) ==
    /\ Tick
    /\ db' = jump_to_step_db(db, form)
    /\ store' = jump_to_step_store(store, db, form)
    /\ last' = Request("jump_to_step", pipeline_id_of(db), Get(form, "step_id", None), None,
                       rebuild)
    /\ notice' = "none"
    /\ UNCHANGED <<submitted, kept, owner>>

Next ==
    \/ \E form \in InitForms : init(form)
    \/ \E step_id \in RegularIds : handle_step(step_id)
    \/ \E step_id \in StepIds : \E form \in SubmitForms(StepAt(steps_indices[step_id])) :
          handle_step_submit(step_id, form)
    \/ \E form \in RevertForms : handle_revert(form)
    \/ \E method \in {"GET", "POST"} : finalize(method)
    \/ unfinalize
    \/ \E form \in JumpForms : jump_to_step(form)

Spec == Init /\ [][Next]_vars

\* a workflow copied from the template whose validate_step rejects some values
InitValidation ==
    /\ store = EmptyDict
    /\ db = EmptyDict
    /\ clock = 0
    /\ last = Request("start", None, None, None, None)
    /\ prev = Request("start", None, None, None, None)
    /\ pre = EmptyDict
    /\ submitted = {}
    /\ kept = {}
    /\ env \in {[HelloEnv EXCEPT !.rejects = r, !.budget = MaxClockEnv] : r \in {{""}, {"Grace"}}}
    /\ issuer = None
    /\ owner = EmptyDict
    /\ notice = "none"
    /\ reqs = EmptyDict
    /\ chain = NoChain
    /\ chat = NoChat

SpecValidation == InitValidation /\ [][Next]_vars

\* two browsers use the one server
InitClients ==
    /\ store = EmptyDict
    /\ db = EmptyDict
    /\ clock = 0
    /\ last = Request("start", None, None, None, None)
    /\ prev = Request("start", None, None, None, None)
    /\ pre = EmptyDict
    /\ submitted = {}
    /\ kept = {}
    /\ env = [HelloEnv EXCEPT !.clients = {"c1", "c2"}, !.budget = MaxClockEnv]
    /\ issuer = None
    /\ owner = EmptyDict
    /\ notice = "none"
    /\ reqs = EmptyDict
    /\ chain = NoChain
    /\ chat = NoChat

SpecClients == InitClients /\ [][Next]_vars

\* the side channel may fail to deliver a notice
InitNotify ==
    /\ store = EmptyDict
    /\ db = EmptyDict
    /\ clock = 0
    /\ last = Request("start", None, None, None, None)
    /\ prev = Request("start", None, None, None, None)
    /\ pre = EmptyDict
    /\ submitted = {}
    /\ kept = {}
    /\ env = [HelloEnv EXCEPT !.lossy = TRUE, !.budget = MaxClockEnv]
    /\ issuer = None
    /\ owner = EmptyDict
    /\ notice = "none"
    /\ reqs = EmptyDict
    /\ chain = NoChain
    /\ chat = NoChat

SpecNotify == InitNotify /\ [][Next]_vars

(***************************************************************************)
(* Vocabulary of the properties.                                           *)
(***************************************************************************)
\* the step has data in the state document (init's test, lines 170-173)
HasData(state, step) == step.id \in DOMAIN state /\ step.done \in DOMAIN state[step.id]

\* the finalize lock is set (init's test, line 176)
IsFinalized(state) == "finalize" \in DOMAIN state /\ "finalized" \in DOMAIN state["finalize"]

\* the data of the regular steps of a state document
RegularData(state) == [s \in RegularIds \cap DOMAIN state |-> state[s]]

\* the document of the pipeline the last request worked on, after and before it
cur == read_state(store, last.pid)
before == read_state(pre, last.pid)

LaterSteps(step_id) == {s \in RegularSteps : steps_indices[s.id] > steps_indices[step_id]}

\* C1: after a successful submit_step(k, v) the record holds process(k, v) for
\* step k and holds no data for any regular step after k.
C1_SubmitWritesAndClearsDownstream ==
    (last.op = "submit" /\ last.view = "revert_control") =>
        LET step == StepAt(steps_indices[last.step])
        IN /\ HasData(cur, step)
           /\ cur[step.id][step.done] = process_step(last.step, last.val)
           /\ \A s \in LaterSteps(last.step) : ~HasData(cur, s)

\* C1 witness: a value was submitted to step_01 of a record that held data for
\* step_02.
C1_Witness ==
    /\ last.op = "submit" /\ last.view = "revert_control"
    /\ last.step = "step_01" /\ last.val = "Grace"
    /\ HasData(before, StepAt(1))

\* C2: a record whose finalize step holds finalized = true has data for every
\* regular step.
C2_FinalizedImpliesAllSteps ==
    \A pid \in DOMAIN store :
        IsFinalized(store[pid]) => \A s \in RegularSteps : HasData(store[pid], s)

\* C3: while a pipeline is finalized no request other than unfinalize changes
\* the data of a step, and a submit leaves the whole record unchanged.
C3_FinalizedIsImmutable ==
    [][\A pid \in DOMAIN store :
          (IsFinalized(store[pid]) /\ last'.op # "unfinalize") =>
              /\ RegularData(read_state(store', pid)) = RegularData(store[pid])
              /\ last'.op = "submit" => read_state(store', pid) = store[pid]]_vars

\* C4: the finalize action sets the lock exactly when every regular step has
\* data; otherwise the record is unchanged and "nothing to finalize" is returned.
C4_FinalizeIsGuarded ==
    (last.op = "finalize" /\ last.val = "POST") =>
        IF \A s \in RegularSteps : HasData(before, s)
        THEN IsFinalized(cur)
        ELSE /\ store = pre
             /\ ~IsFinalized(cur)
             /\ last.view = "Nothing to finalize yet."

\* C5: finalize followed by unfinalize leaves the data of every regular step
\* as it was immediately before the finalize.
C5_FinalizeUnfinalizeRoundTrip ==
    [][(last.op = "finalize" /\ last'.op = "unfinalize") =>
          RegularData(read_state(store', last'.pid)) = RegularData(before)]_vars

\* C5 witness: unfinalize served right after the finalize POST of a record
\* with data for both regular steps.
C5_Witness ==
    /\ last.op = "unfinalize" /\ prev.op = "finalize" /\ prev.val = "POST"
    /\ IsFinalized(before)
    /\ \A s \in RegularSteps : HasData(cur, s)

\* C6: unfinalize removes the finalize entry and nothing else, whether or not
\* the pipeline was finalized, and touches no other pipeline.
C6_UnfinalizeRemovesOnlyLock ==
    last.op = "unfinalize" =>
        \A pid \in PipelineIds :
            read_state(store, pid) =
                IF pid = last.pid /\ "finalize" \in DOMAIN read_state(pre, pid)
                THEN Del(read_state(pre, pid), "finalize")
                ELSE read_state(pre, pid)

\* C6 witness: unfinalize served on a finalized record that holds step data
\* and a revert marker.
C6_Witness ==
    /\ last.op = "unfinalize"
    /\ IsFinalized(before)
    /\ HasData(before, StepAt(0))
    /\ "_revert_target" \in DOMAIN before

\* C7: after revert(k) on a regular step of an unlocked pipeline, k and the
\* steps after it have no data, _revert_target is k and step k renders as the
\* input-request view.
C7_RevertClearsAndTargets ==
    (last.op = "revert" /\ last.step \in RegularIds /\ ~IsFinalized(before)) =>
        /\ ~HasData(cur, StepAt(steps_indices[last.step]))
        /\ \A s \in LaterSteps(last.step) : ~HasData(cur, s)
        /\ Get(cur, "_revert_target", None) = last.step
        /\ handle_step_view(store, db, last.step) = "input"

\* C7 witness: revert to step_01 of an unlocked record that held data for both
\* regular steps.
C7_Witness ==
    /\ last.op = "revert" /\ last.step = "step_01"
    /\ ~IsFinalized(before)
    /\ \A s \in RegularSteps : HasData(before, s)

\* C8 as stated: a regular step has data exactly when it was submitted and no
\* revert cleared it since.
C8_DataIffSubmittedNotReverted ==
    \A pid \in PipelineIds : \A s \in RegularSteps :
        HasData(read_state(store, pid), s) <=> <<pid, s.id>> \in submitted

\* C8 amended: a regular step has data exactly when it was submitted and, since
\* then, neither a revert to it or to an earlier step nor a successful
\* submission to an earlier step has happened.
C8_DataIffSubmittedNotCleared ==
    \A pid \in PipelineIds : \A s \in RegularSteps :
        HasData(read_state(store, pid), s) <=> <<pid, s.id>> \in kept

\* C8 witness: a submission to step_01 dropped the data of a submitted,
\* never reverted step_02.
C8_Witness ==
    /\ last.op = "submit" /\ last.step = "step_01"
    /\ <<last.pid, "step_02">> \in submitted \ kept
    /\ HasData(before, StepAt(1))

\* C9: in an unfinalized pipeline the regular steps that have data form a
\* prefix of the step order.
C9_DataIsPrefix ==
    \A pid \in DOMAIN store :
        ~IsFinalized(store[pid]) =>
            \A s \in RegularSteps : \A t \in LaterSteps(s.id) :
                HasData(store[pid], t) => HasData(store[pid], s)

\* C10: a second revert to the same step right after the first leaves the
\* stored records as the first revert left them.
C10_SecondRevertIsNoOp ==
    (last.op = "revert" /\ prev.op = "revert"
        /\ last.step = prev.step /\ last.pid = prev.pid) => store = pre

\* C10 witness: two reverts to step_01 of one pipeline in a row, the second on
\* a record that carries the marker of the first.
C10_Witness ==
    /\ last.op = "revert" /\ prev.op = "revert"
    /\ last.step = "step_01" /\ prev.step = "step_01"
    /\ last.pid = prev.pid
    /\ Get(before, "_revert_target", None) = "step_01"

\* ---- two requests for one pipeline running at the same time ----

\* the number of mutating requests served before the two requests arrive
MaxHistory == 2

\* the pipeline both requests work on
ConcPid == "p1"

\* the mutating requests: step submissions, the finalize submission, reverts,
\* POST finalize and unfinalize
MutatingOps ==
    {[op |-> "submit", step |-> s, val |-> v] : s \in RegularIds, v \in {"Ada", "Grace"}}
    \cup {[op |-> "finalize_submit", step |-> "finalize", val |-> None]}
    \cup {[op |-> "revert", step |-> s, val |-> None] : s \in StepIds}
    \cup {[op |-> o, step |-> None, val |-> None] : o \in {"finalize", "unfinalize"}}

\* the pipeline table a mutating request leaves when it runs alone
Apply(st, o, now) ==
    CASE o.op = "submit" ->
             handle_step_submit_store(st, ConcPid, o.step,
                 (StepAt(steps_indices[o.step]).done :> o.val))
      [] o.op = "finalize_submit" -> handle_step_submit_store(st, ConcPid, o.step, EmptyDict)
      [] o.op = "revert" -> handle_revert_store(st, ConcPid, o.step)
      [] o.op = "finalize" -> finalize_store(st, ConcPid, "POST", now)
      [] o.op = "unfinalize" -> unfinalize_store(st, ConcPid)

\* the pipeline tables after init and at most n mutating requests, the k-th
\* of them served at clock reading k + 1
RECURSIVE Histories(_)
Histories(n) ==
    IF n = 0 THEN {init_store(EmptyDict, ("pipeline_id" :> ConcPid))}
    ELSE LET H == Histories(n - 1)
         IN H \cup {Apply(st, o, n + 1) : st \in H, o \in MutatingOps}

\* lines 121-123 of handle_revert: read, set the marker, write
handle_revert_mark(st, pipeline_id, step_id) ==
    LET state == read_state(st, pipeline_id)
    IN write_state(st, pipeline_id, Put(state, "_revert_target", step_id))

\* lines 297-301 of handle_step_submit: read, set the value, drop the marker,
\* write
handle_step_submit_write(st, pipeline_id, step_id, processed_val) ==
    LET step == StepAt(steps_indices[step_id])
        state == read_state(st, pipeline_id)
        state2 == Put(state, step_id, (step.done :> processed_val))
        state3 == IF "_revert_target" \in DOMAIN state2
                  THEN Del(state2, "_revert_target") ELSE state2
    IN write_state(st, pipeline_id, state3)

\* MaxHistory mutating requests and renders have been served for one pipeline;
\* two mutating requests for it arrive within one reading of the clock
InitConc ==
    /\ env = HelloEnv
    /\ store \in Histories(MaxHistory)
    /\ pre = store
    /\ db = ("pipeline_id" :> ConcPid)
    /\ clock = MaxHistory + 1
    /\ last = Request("start", None, None, None, None)
    /\ prev = Request("start", None, None, None, None)
    /\ submitted = {}
    /\ kept = {}
    /\ issuer = "c1"
    /\ owner = ("c1" :> ConcPid)
    /\ notice = "none"
    /\ reqs \in [{1, 2} -> {[op |-> o.op, step |-> o.step, val |-> o.val, pc |-> "start"] :
                               o \in MutatingOps}]
    /\ chain = NoChain
    /\ chat = NoChat

\* await pip.clear_steps_from(...) of handle_revert (line 120) and of
\* handle_step_submit (line 295); the request can be suspended at the await
conc_clear(r) ==
    /\ reqs[r].pc = "start"
    /\ reqs[r].op \in {"submit", "revert"}
    /\ store' = clear_steps_from(store, pipeline_id_of(db), reqs[r].step)
    /\ reqs' = [reqs EXCEPT ![r].pc = "cleared"]
    /\ UNCHANGED <<db, clock, last, prev, pre, submitted, kept, env, issuer, owner, notice,
                    chain, chat>>

\* the read, change and write of a handler, which has no await inside
\* (lines 121-123, 279-281, 297-301, 390-393, 403-406)
conc_write(r) ==
    LET o == reqs[r]
        pipeline_id == pipeline_id_of(db)
    IN /\ \/ o.pc = "cleared"
          \/ o.pc = "start" /\ o.op \in {"finalize_submit", "finalize", "unfinalize"}
       /\ store' =
              CASE o.op = "submit" ->
                       handle_step_submit_write(store, pipeline_id, o.step,
                                                process_step(o.step, o.val))
                [] o.op = "revert" -> handle_revert_mark(store, pipeline_id, o.step)
                [] o.op = "finalize_submit" ->
                       handle_step_submit_store(store, pipeline_id, o.step, EmptyDict)
                [] o.op = "finalize" -> finalize_store(store, pipeline_id, "POST", clock + 1)
                [] o.op = "unfinalize" -> unfinalize_store(store, pipeline_id)
       /\ reqs' = [reqs EXCEPT ![r].pc = "written"]
       /\ UNCHANGED <<db, clock, last, prev, pre, submitted, kept, env, issuer, owner, notice,
                    chain, chat>>

\* await pip.simulated_stream(...) after the write, then the view is returned
conc_notify(r) ==
    /\ reqs[r].pc = "written"
    /\ \E d \in Deliveries : notice' = d
    /\ reqs' = [reqs EXCEPT ![r].pc = "done"]
    /\ UNCHANGED <<store, db, clock, last, prev, pre, submitted, kept, env, issuer, owner,
                    chain, chat>>

NextConc ==
    \E r \in {1, 2} :
        \/ conc_clear(r)
        \/ conc_write(r)
        \/ conc_notify(r)

SpecConc == InitConc /\ [][NextConc]_vars

\* ---- workflows made from the template with other steps ----

\* the template with a third regular step, whose predecessor's field is not
\* called name
ThreeSteps ==
    << Step("step_01", "name", "Your Name", TRUE, None),
       Step("step_02", "greeting", "Hello Message", FALSE, "Hello "),
       Step("step_03", "farewell", "Goodbye Message", FALSE, "Bye "),
       Step("finalize", "finalized", "Finalize", FALSE, None) >>

\* the template with its first field renamed
RenamedSteps ==
    << Step("step_01", "first_name", "Your Name", TRUE, None),
       Step("step_02", "greeting", "Hello Message", FALSE, "Hello "),
       Step("finalize", "finalized", "Finalize", FALSE, None) >>

Workflows == {steps, ThreeSteps, RenamedSteps}

\* position of a step in a workflow's steps (1-based)
IndexIn(wsteps, step_id) == CHOOSE i \in 1..Len(wsteps) : wsteps[i].id = step_id

RegularIdsOf(wsteps) == {wsteps[i].id : i \in 1..(Len(wsteps) - 1)}

\* the documents a workflow's submissions leave when no revert is pending and
\* the pipeline is not finalized: any set of regular steps holds a value
\* (submitting the steps of the set in ascending order leaves exactly them)
DocsOf(wsteps) ==
    UNION {{[id \in S |-> (wsteps[IndexIn(wsteps, id)].done :> f[id])] : f \in [S -> FieldValues]} :
              S \in SUBSET RegularIdsOf(wsteps)}

\* the view handle_step returns (lines 202-270) for a workflow with the steps
\* wsteps, rendering one of its regular steps
handle_step_view_of(wsteps, st, d, step_id) ==
    LET step == wsteps[IndexIn(wsteps, step_id)]
        pipeline_id == pipeline_id_of(d)
        state == read_state(st, pipeline_id)
        step_data == get_step_data(st, pipeline_id, step_id, EmptyDict)
        user_val == Get(step_data, step.done, "")
        finalize_data == get_step_data(st, pipeline_id, "finalize", EmptyDict)
    IN IF "finalized" \in DOMAIN finalize_data THEN "locked"
       ELSE IF Truthy(user_val) /\ Get(state, "_revert_target", None) # step_id
            THEN "completed"
       ELSE "input"

\* init has named pipeline p1 of one of the workflows and steps of it have
\* been submitted
InitSuggest ==
    /\ env \in {[rejects |-> {}, clients |-> {"c1"}, lossy |-> FALSE,
                 budget |-> MaxClockEnv, steps |-> w] : w \in Workflows}
    /\ store \in {("p1" :> doc) : doc \in DocsOf(env.steps)}
    /\ pre = store
    /\ db = ("pipeline_id" :> "p1")
    /\ clock = 0
    /\ last = Request("start", None, None, None, None)
    /\ prev = Request("start", None, None, None, None)
    /\ submitted = {}
    /\ kept = {}
    /\ issuer = None
    /\ owner = EmptyDict
    /\ notice = "none"
    /\ reqs = EmptyDict
    /\ chain = NoChain
    /\ chat = NoChat

\* GET /<app>/<step_id> of the workflow: handle_step
wf_handle_step(step_id) ==
    LET view == handle_step_view_of(env.steps, store, db, step_id)
        step == env.steps[IndexIn(env.steps, step_id)]
        user_val == Get(get_step_data(store, pipeline_id_of(db), step_id, EmptyDict),
                        step.done, "")
    IN /\ Tick
       /\ last' = [Request("step", pipeline_id_of(db), step_id, None, view)
                      EXCEPT !.shown = IF view = "input"
                                       THEN display_value_of(env.steps, store, db, step_id)
                                       ELSE user_val]
       /\ notice' = IF view = "input" THEN "delivered" ELSE "none"
       /\ UNCHANGED <<store, db, submitted, kept, owner>>

NextSuggest == \E step_id \in RegularIdsOf(env.steps) : wf_handle_step(step_id)

SpecSuggest == InitSuggest /\ [][NextSuggest]_vars

\* ---- the browser following the chain of placeholders ----

\* the number of responses the browser receives in one chain
MaxChain == 5

\* generate_step_placeholders (lines 332-337): one div per step; the first is
\* fetched on load, each other one on the stepComplete event of the step
\* before it, which no response of this file fires
generate_step_placeholders ==
    [i \in 1..Len(steps) |->
        [id |-> steps[i].id,
         trigger |-> IF i = 1 THEN "load" ELSE "stepComplete-" \o steps[i - 1].id]]

\* the step the browser fetches when the placeholders arrive
FirstFetch ==
    LET loads == {i \in 1..Len(steps) : generate_step_placeholders[i].trigger = "load"}
    IN IF loads = {} THEN None ELSE generate_step_placeholders[CHOOSE i \in loads : TRUE].id

\* the div with hx_trigger=load that handle_step_submit returns after a
\* successful submission (lines 294, 311-314)
handle_step_submit_next(step_id) ==
    LET step_index == steps_indices[step_id]
    IN IF step_index < Len(steps) - 1 THEN StepAt(step_index + 1).id ELSE None

\* init, revert, finalize or unfinalize has just returned the placeholders of
\* pipeline p1, whose record is one that init and MaxHistory mutating requests
\* leave
InitChain ==
    /\ env = [HelloEnv EXCEPT !.budget = MaxChain]
    /\ store \in Histories(MaxHistory)
    /\ pre = store
    /\ db = ("pipeline_id" :> ConcPid)
    /\ clock = 0
    /\ last = Request("start", None, None, None, None)
    /\ prev = Request("start", None, None, None, None)
    /\ submitted = {}
    /\ kept = {}
    /\ issuer = None
    /\ owner = EmptyDict
    /\ notice = "none"
    /\ reqs = EmptyDict
    /\ chain = [views |-> << >>, pending |-> FirstFetch]
    /\ chat = NoChat

\* the browser's request is served at the next clock reading
ChainTick ==
    /\ clock < env.budget
    /\ clock' = clock + 1
    /\ pre' = store
    /\ prev' = last
    /\ issuer' \in env.clients
    /\ UNCHANGED <<env, reqs, chat>>

\* the browser fetches the step a div with hx_trigger=load names: a regular
\* step through handle_step, the finalize step through GET finalize (line 75)
chain_fetch ==
    LET step_id == chain.pending
        pipeline_id == pipeline_id_of(db)
    IN /\ step_id # None
       /\ ChainTick
       /\ IF step_id \in RegularIds
          THEN LET view == handle_step_view(store, db, step_id)
               IN /\ last' = [Request("step", pipeline_id, step_id, None, view)
                                 EXCEPT !.shown = handle_step_shown(store, db, step_id),
                                        !.next = handle_step_next(store, db, step_id)]
                  /\ chain' = [views |-> Append(chain.views,
                                                [op |-> "step", step |-> step_id, view |-> view]),
                               pending |-> handle_step_next(store, db, step_id)]
                  /\ notice' = IF view = "input" THEN "delivered" ELSE "none"
          ELSE LET view == finalize_view(store, pipeline_id, "GET")
               IN /\ last' = Request("finalize", pipeline_id, None, "GET", view)
                  /\ chain' = [views |-> Append(chain.views,
                                                [op |-> "finalize", step |-> step_id,
                                                 view |-> view]),
                               pending |-> None]
                  /\ notice' = "none"
       /\ UNCHANGED <<store, db, submitted, kept, owner>>

\* the user fills in the input form the chain stopped at and posts it
chain_submit(val) ==
    LET n == Len(chain.views)
        step_id == chain.views[n].step
        step == StepAt(steps_indices[step_id])
        pipeline_id == pipeline_id_of(db)
        form == (step.done :> val)
    IN /\ n > 0
       /\ chain.views[n].view = "input"
       /\ ChainTick
       /\ store' = handle_step_submit_store(store, pipeline_id, step_id, form)
       /\ last' = [Request("submit", pipeline_id, step_id, val, "revert_control")
                      EXCEPT !.next = handle_step_submit_next(step_id)]
       /\ chain' = [views |-> Append(chain.views,
                                     [op |-> "submit", step |-> step_id,
                                      view |-> "revert_control"]),
                    pending |-> handle_step_submit_next(step_id)]
       /\ notice' = "delivered"
       /\ UNCHANGED <<db, submitted, kept, owner>>

NextChain ==
    \/ chain_fetch
    \/ \E val \in {"Ada", "Grace"} : chain_submit(val)

SpecChain == InitChain /\ [][NextChain]_vars

\* the _revert_target marker of a state document, None when it has none
RevertTarget(state) == Get(state, "_revert_target", None)

\* C11: a revert on a finalized pipeline clears no step data, keeps the lock
\* and sets no _revert_target.
C11_RevertWhileFinalizedIsNoOp ==
    (last.op = "revert" /\ IsFinalized(before)) =>
        /\ RegularData(cur) = RegularData(before)
        /\ IsFinalized(cur)
        /\ RevertTarget(cur) = RevertTarget(before)

\* C12: revert or jump_to_step with a step id that is not a step of the
\* workflow changes no pipeline record, and revert answers with an error.
C12_UnknownStepChangesNothing ==
    (last.op \in {"revert", "jump_to_step"} /\ last.step \notin StepIds) =>
        /\ store = pre
        /\ last.op = "revert" => last.view = "Error: No step specified"

\* C13: a submission that validate_step rejects returns the validation error
\* and leaves every pipeline record as it was.
C13_RejectedSubmitChangesNothing ==
    (last.op = "submit" /\ last.val \in env.rejects) =>
        /\ last.view = "error"
        /\ store = pre

\* C13 witness: a rejected submission to step_01 of a record that holds a
\* revert marker and data for step_02.
C13_Witness ==
    /\ last.op = "submit" /\ last.view = "error" /\ last.step = "step_01"
    /\ "_revert_target" \in DOMAIN before
    /\ HasData(before, StepAt(1))

\* C14: a successful submission to a regular step leaves no _revert_target,
\* whichever step the marker named; a render and a rejected submission leave
\* the marker as it was.
C14_MarkerClearedBySubmitOnly ==
    /\ (last.op = "submit" /\ last.view = "revert_control") =>
           "_revert_target" \notin DOMAIN cur
    /\ (last.op = "step" \/ (last.op = "submit" /\ last.view = "error")) =>
           RevertTarget(cur) = RevertTarget(before)

\* C14 witness: a successful submission to step_02 of a record whose marker
\* named step_01.
C14_Witness ==
    /\ last.op = "submit" /\ last.view = "revert_control" /\ last.step = "step_02"
    /\ RevertTarget(before) = "step_01"

\* C15: on an unfinalized pipeline a regular step that has data and is not
\* the revert target renders as the completed view, a step that is the revert
\* target renders as the input-request view, and the render stores nothing.
C15_RenderFollowsDataAndMarker ==
    (last.op = "step" /\ last.step \in RegularIds /\ ~IsFinalized(cur)) =>
        /\ (HasData(cur, StepAt(steps_indices[last.step])) /\ RevertTarget(cur) # last.step)
               => last.view = "completed"
        /\ RevertTarget(cur) = last.step => last.view = "input"
        /\ store = pre

\* C16 as stated: a submission to a step that has data and is not the revert
\* target is rejected and leaves the records unchanged.
C16_ResubmitIsRejected ==
    (last.op = "submit" /\ HasData(before, StepAt(steps_indices[last.step]))
        /\ RevertTarget(before) # last.step) => store = pre

\* C16 amended: a submission to a step that has data and is not the revert
\* target is accepted: the step holds the processed value and every regular
\* step after it has no data.
C16_ResubmitIsAccepted ==
    (last.op = "submit" /\ HasData(before, StepAt(steps_indices[last.step]))
        /\ RevertTarget(before) # last.step) =>
        LET step == StepAt(steps_indices[last.step])
        IN /\ last.view = "revert_control"
           /\ HasData(cur, step)
           /\ cur[step.id][step.done] = process_step(last.step, last.val)
           /\ \A s \in LaterSteps(last.step) : ~HasData(cur, s)

\* C16 witness: Grace submitted to step_01 of a record without marker that
\* holds another name and data for step_02.
C16_Witness ==
    /\ last.op = "submit" /\ last.step = "step_01" /\ last.val = "Grace"
    /\ HasData(before, StepAt(0)) /\ HasData(before, StepAt(1))
    /\ before["step_01"]["name"] = "Ada"
    /\ "_revert_target" \notin DOMAIN before

\* C17: init with an unseen id creates a record without step data, init with
\* a stored id leaves every record as it was, and no request removes a record.
C17_InitCreatesOrKeeps ==
    /\ DOMAIN pre \subseteq DOMAIN store
    /\ last.op = "init" =>
           IF last.pid \in DOMAIN pre
           THEN store = pre
           ELSE /\ last.pid \in DOMAIN store
                /\ \A s \in RegularSteps : ~HasData(cur, s)
                /\ ~IsFinalized(cur)
                /\ "_revert_target" \notin DOMAIN cur
                /\ \A pid \in DOMAIN pre : store[pid] = pre[pid]

\* C17 witness: init names a stored pipeline that holds step data and the lock.
C17_Witness ==
    /\ last.op = "init"
    /\ last.pid \in DOMAIN pre
    /\ HasData(before, StepAt(0))
    /\ IsFinalized(before)

\* C18: once two clients have each initialised a pipeline of their own, a
\* request of one client works on that client's pipeline and changes no other.
C18_PipelinesAreIndependent ==
    (/\ last.op \notin {"start", "init"}
     /\ DOMAIN owner = env.clients
     /\ \A c1, c2 \in env.clients : c1 # c2 => owner[c1] # owner[c2]) =>
        /\ last.pid = owner[issuer]
        /\ \A pid \in PipelineIds \ {owner[issuer]} :
               read_state(store, pid) = read_state(pre, pid)

C19_ConcurrentEqualsSerial ==
    (DOMAIN reqs = {1, 2} /\ \A r \in {1, 2} : reqs[r].pc = "done") =>
        store \in {Apply(Apply(pre, reqs[1], clock + 1), reqs[2], clock + 1),
                   Apply(Apply(pre, reqs[2], clock + 1), reqs[1], clock + 1)}

\* C21: jump_to_step leaves every pipeline record (step data, lock and
\* _revert_target) as it was.
C21_JumpKeepsRecords ==
    last.op = "jump_to_step" => store = pre

\* C21 witness: jump_to_step to step_01 on a record that holds step data and a
\* revert marker.
C21_Witness ==
    /\ last.op = "jump_to_step" /\ last.step = "step_01"
    /\ HasData(before, StepAt(0))
    /\ "_revert_target" \in DOMAIN before

\* C22: init with a missing or an empty pipeline_id field works on the
\* pipeline "untitled".
C22_BlankIdIsUntitled ==
    (last.op = "init" /\ last.val \in {None, ""}) =>
        /\ last.pid = "untitled"
        /\ Get(db, "pipeline_id", None) = "untitled"
        /\ DOMAIN store = DOMAIN pre \cup {"untitled"}

\* C23: rendering a step, or the finalize step through GET finalize, leaves
\* every pipeline record as it was.
C23_RenderStoresNothing ==
    (last.op = "step" \/ (last.op = "finalize" /\ last.val = "GET")) => store = pre

\* C23 witness: GET finalize on an unfinalized record in which every regular
\* step has data.
C23_Witness ==
    /\ last.op = "finalize" /\ last.val = "GET"
    /\ \A s \in RegularSteps : HasData(before, s)
    /\ ~IsFinalized(before)

\* C24: while the pipeline is finalized a regular step renders as the locked
\* view of its stored value with the load of the next step, also when
\* _revert_target names the step.
C24_FinalizedRendersLocked ==
    (last.op = "step" /\ last.step \in RegularIds /\ IsFinalized(cur)) =>
        LET step == StepAt(steps_indices[last.step])
        IN /\ last.view = "locked"
           /\ last.shown = Get(Get(cur, step.id, EmptyDict), step.done, "")
           /\ last.next = StepAt(steps_indices[last.step] + 1).id

\* C24 witness: step_01 rendered on a finalized record whose _revert_target
\* names step_01.
C24_Witness ==
    /\ last.op = "step" /\ last.step = "step_01"
    /\ IsFinalized(cur)
    /\ RevertTarget(cur) = "step_01"

\* C27: GET finalize returns the unfinalize offer exactly when the pipeline is
\* finalized, otherwise the finalize offer when every regular step has data
\* and 'nothing to finalize yet' when not.
C27_FinalizeViewFollowsState ==
    (last.op = "finalize" /\ last.val = "GET") =>
        last.view = IF IsFinalized(cur) THEN "All Cards Complete"
                    ELSE IF \A s \in RegularSteps : HasData(cur, s) THEN "Ready to finalize?"
                    ELSE "Nothing to finalize yet."

\* the overall state derived from a record (spec 4.3)
OverallState(state) ==
    IF IsFinalized(state) THEN "finalized"
    ELSE IF \A s \in RegularSteps : HasData(state, s) THEN "ready-to-finalize"
    ELSE IF \A s \in RegularSteps : ~HasData(state, s) THEN "new"
    ELSE "in-progress"

\* C28 as stated: init sends a status notice for each of the four overall
\* states: finalized, ready-to-finalize, new, in-progress.
C28_InitNoticeForEveryState ==
    last.op = "init" =>
        /\ last.status # None
        /\ last.status = "Workflow is complete and finalized."
               <=> OverallState(cur) = "finalized"
        /\ last.status = "Workflow is complete but not finalized."
               <=> OverallState(cur) = "ready-to-finalize"
        /\ last.status = "Please complete each step in sequence."
               <=> OverallState(cur) = "new"

\* C28 amended: init sends the finalized notice exactly when every regular
\* step has data and the lock is set, the ready-to-finalize notice exactly
\* when every regular step has data and the lock is not set, the new notice
\* exactly when the record has no entry for any step, and no status notice
\* otherwise.
C28_InitNoticeForCompleteOrNew ==
    last.op = "init" =>
        LET complete == \A s \in RegularSteps : HasData(cur, s)
        IN /\ last.status = "Workflow is complete and finalized."
                  <=> (complete /\ IsFinalized(cur))
           /\ last.status = "Workflow is complete but not finalized."
                  <=> (complete /\ ~IsFinalized(cur))
           /\ last.status = "Please complete each step in sequence."
                  <=> (~complete /\ StepIds \cap DOMAIN cur = {})
           /\ last.status = None
                  <=> (~complete /\ StepIds \cap DOMAIN cur # {})

\* C28 witness: init loads a record in which step_01 has data and step_02 has
\* none, and sends no status notice.
C28_Witness ==
    /\ last.op = "init"
    /\ HasData(cur, StepAt(0)) /\ ~HasData(cur, StepAt(1)) /\ ~IsFinalized(cur)
    /\ last.status = None

\* C29: no record is finalized and holds a _revert_target at the same time.
C29_NoMarkerWhileFinalized ==
    \A pid \in DOMAIN store :
        IsFinalized(store[pid]) => "_revert_target" \notin DOMAIN store[pid]

\* C30: a submission to step k and a revert to step k leave the data of every
\* step before k as it was, give no step from k on data it did not have, and
\* the submission writes step k.
C30_EarlierStepsKept ==
    (last.op \in {"submit", "revert"} /\ last.step \in StepIds) =>
        LET k == steps_indices[last.step]
        IN /\ \A s \in RegularSteps :
                  steps_indices[s.id] < k =>
                      /\ s.id \in DOMAIN cur <=> s.id \in DOMAIN before
                      /\ s.id \in DOMAIN cur => cur[s.id] = before[s.id]
           /\ \A s \in RegularSteps :
                  (steps_indices[s.id] >= k /\ ~(last.op = "submit" /\ s.id = last.step)) =>
                      (s.id \in DOMAIN cur =>
                          s.id \in DOMAIN before /\ cur[s.id] = before[s.id])
           /\ last.op = "submit" => HasData(cur, StepAt(k))

\* C30 witness: a submission to step_02 of a record in which step_01 holds Ada.
C30_Witness ==
    /\ last.op = "submit" /\ last.step = "step_02" /\ last.view = "revert_control"
    /\ HasData(before, StepAt(0))
    /\ before["step_01"]["name"] = "Ada"

Completes(response) == response.view \in {"completed", "locked", "revert_control"}

\* C26: in the chain the placeholders start, the first step is fetched first,
\* step i+1 is fetched only right after step i returned a completed or locked
\* view or was submitted, an input form is followed by nothing but its
\* submission, and no step is rendered while a step before it has no data or
\* is the revert target.
C26_ChainStopsAtFirstOpenStep ==
    LET views == chain.views
        n == Len(views)
    IN /\ n > 0 => views[1].op = "step" /\ views[1].step = StepAt(0).id
       /\ \A j \in 2..n :
              views[j].op # "submit" =>
                  /\ Completes(views[j - 1])
                  /\ steps_indices[views[j].step] = steps_indices[views[j - 1].step] + 1
       /\ \A j \in 1..(n - 1) :
              views[j].view = "input" =>
                  views[j + 1].op = "submit" /\ views[j + 1].step = views[j].step
       /\ (n > 0 /\ views[n].op # "submit") =>
              \A s \in RegularSteps :
                  steps_indices[s.id] < steps_indices[views[n].step] =>
                      /\ HasData(read_state(store, pipeline_id_of(db)), s)
                      /\ RevertTarget(read_state(store, pipeline_id_of(db))) # s.id

\* C31: when a submission of step k makes its write among other requests of
\* the same pipeline, the record it leaves has no entry for any step after k.
C31_SubmitLeavesNoDownstreamData ==
    [][\A r \in DOMAIN reqs :
           (reqs[r].op = "submit" /\ reqs[r].pc = "cleared" /\ reqs'[r].pc = "written") =>
               \A i \in 1..Len(steps) :
                   i - 1 > steps_indices[reqs[r].step] =>
                       steps[i].id \notin DOMAIN read_state(store', pipeline_id_of(db))]_vars

\* ---------------------------------------------------------------------------
\* The chat of pipulate.py: the websocket handler ws and its broadcasts
\* ---------------------------------------------------------------------------

\* the messages a browser sends over its websocket; the empty one fails `if msg`
Msgs == {"", "a"}

\* most messages the chat receives in one run
MaxMsgs == 2

\* the words the modelled responses are made of
Words == {"re", "a", "Connection", "error", "occurred:"}

\* " ".join(words)
RECURSIVE join(_)
join(words) ==
    IF Len(words) = 0 THEN ""
    ELSE IF Len(words) = 1 THEN words[1]
    ELSE words[1] \o " " \o join(Tail(words))

\* response.split() (line 748): the words whose joining by blanks is the response
split(response) ==
    CHOOSE words \in UNION {[1..n -> Words] : n \in 0..3} : join(words) = response

\* the content of the last user entry of the messages handed to the model
RECURSIVE last_user(_)
last_user(messages) ==
    IF Len(messages) = 0 THEN ""
    ELSE IF messages[Len(messages)].role = "user" THEN messages[Len(messages)].content
    ELSE last_user(SubSeq(messages, 1, Len(messages) - 1))

\* the model's answer to a list of messages: it answers the last thing the user said
ollama_content(messages) == "re " \o last_user(messages)

\* chat_with_ollama: the content of the model's answer, or, when the request
\* fails, the error message the except clauses return
chat_with_ollama(messages) == {ollama_content(messages), "Connection error occurred:"}

\* mk_input_group(disabled=...), as the browser shows it after the swap
mk_input_group(disabled) == IF disabled THEN "disabled" ELSE "enabled"

\* the exception of `for u in users.values()` when users changed size during
\* an await of the loop body: the handler ends without running what follows
RuntimeError(ch, c) ==
    [ch EXCEPT !.ws[c] = Idle, !.raised = @ \cup {c}]

\* what follows a broadcast loop once users.values() is exhausted, up to the
\* next await
after_loop(ch, c) ==
    LET h == ch.ws[c]
    IN CASE h.pc = "disable" ->
                \* lines 741-744: the user's entry, then the model call in a thread
                [ch EXCEPT !.conversation = Append(@, [role |-> "user", content |-> h.msg]),
                           !.ws[c].pc = "generate"]
         [] h.pc = "stream" ->
                \* line 761: await asyncio.sleep(TYPING_DELAY)
                [ch EXCEPT !.ws[c].pc = "sleep"]
         [] OTHER ->
                \* the handler returns after the enabling broadcast
                [ch EXCEPT !.ws[c] = Idle]

\* what the handler sends in the loop it is in
payload(h) ==
    CASE h.pc = "disable" -> mk_input_group(TRUE)
      [] h.pc = "enable" -> mk_input_group(FALSE)
      [] OTHER -> join(SubSeq(split(h.response), 1, h.i + 1))

\* one next() of `for u in users.values()` with the loop body up to its await
run_loop(ch, c) ==
    LET h == ch.ws[c]
        todo == SelectSeq(ch.users, LAMBDA u : u \notin h.sent)
    IN IF Len(ch.users) # h.size THEN RuntimeError(ch, c)
       ELSE IF Len(todo) = 0 THEN after_loop(ch, c)
       ELSE LET u == todo[1]
            IN IF h.pc = "stream"
               THEN [ch EXCEPT !.ws[c].sent = @ \cup {u}, !.msg_list[u] = payload(h)]
               ELSE [ch EXCEPT !.ws[c].sent = @ \cup {u}, !.input[u] = payload(h)]

\* the handler enters one of its broadcast loops: the iterator over
\* users.values() is created and the first next() follows without an await
start_loop(ch, c, pc) ==
    run_loop([ch EXCEPT !.ws[c].pc = pc, !.ws[c].size = Len(ch.users), !.ws[c].sent = {}], c)

\* on_conn: the browser has loaded the page, whose input group is enabled
\* (line 537), and its websocket is registered
on_conn(c) ==
    /\ chat.input[c] = "none"
    /\ \A d \in 1..(c - 1) : chat.input[d] # "none"
    /\ chat' = [chat EXCEPT !.users = Append(@, c), !.input[c] = mk_input_group(FALSE)]
    /\ UNCHANGED <<store, db, clock, last, prev, pre, submitted, kept, env, issuer, owner,
                   notice, reqs, chain>>

\* on_disconn: the websocket is closed and taken out of users; a connection
\* is closed between two of its messages, never inside its handler
on_disconn(c) ==
    /\ \E k \in 1..Len(chat.users) : chat.users[k] = c
    /\ chat.ws[c].pc = "idle"
    /\ chat' = [chat EXCEPT !.users = SelectSeq(@, LAMBDA u : u # c),
                            !.input[c] = "closed",
                            !.msg_list[c] = ""]
    /\ UNCHANGED <<store, db, clock, last, prev, pre, submitted, kept, env, issuer, owner,
                   notice, reqs, chain>>

\* ws(msg), from the arrival of the message to the first await
ws_recv(c, msg) ==
    /\ \E k \in 1..Len(chat.users) : chat.users[k] = c
    /\ chat.ws[c].pc = "idle"
    /\ chat.received < MaxMsgs
    /\ chat' = IF msg = ""
               THEN [chat EXCEPT !.received = @ + 1]
               ELSE start_loop([chat EXCEPT !.received = @ + 1, !.ws[c].msg = msg], c, "disable")
    /\ UNCHANGED <<store, db, clock, last, prev, pre, submitted, kept, env, issuer, owner,
                   notice, reqs, chain>>

\* the handler resumes after `await u(...)` in one of its three broadcasts
ws_send(c) ==
    /\ chat.ws[c].pc \in {"disable", "stream", "enable"}
    /\ chat' = run_loop(chat, c)
    /\ UNCHANGED <<store, db, clock, last, prev, pre, submitted, kept, env, issuer, owner,
                   notice, reqs, chain>>

\* the thread of run_in_threadpool posts the conversation as it is when the
\* thread runs and gets the response
ws_generate(c) ==
    /\ chat.ws[c].pc = "generate"
    /\ \E response \in chat_with_ollama(chat.conversation) :
           chat' = [chat EXCEPT !.ws[c].response = response, !.ws[c].pc = "reply"]
    /\ UNCHANGED <<store, db, clock, last, prev, pre, submitted, kept, env, issuer, owner,
                   notice, reqs, chain>>

\* the handler resumes with the response: the assistant's entry (line 745),
\* then the first word of the typing effect
ws_reply(c) ==
    /\ chat.ws[c].pc = "reply"
    /\ LET h == chat.ws[c]
           ch == [chat EXCEPT !.conversation =
                                  Append(@, [role |-> "assistant", content |-> h.response]),
                              !.ws[c].i = 0]
       IN chat' = IF Len(split(h.response)) = 0
                  THEN start_loop(ch, c, "enable")
                  ELSE start_loop(ch, c, "stream")
    /\ UNCHANGED <<store, db, clock, last, prev, pre, submitted, kept, env, issuer, owner,
                   notice, reqs, chain>>

\* the handler resumes after asyncio.sleep: the next word, or the enabling
\* broadcast after the last one
ws_sleep(c) ==
    /\ chat.ws[c].pc = "sleep"
    /\ LET h == chat.ws[c]
       IN chat' = IF h.i + 1 < Len(split(h.response))
                  THEN start_loop([chat EXCEPT !.ws[c].i = h.i + 1], c, "stream")
                  ELSE start_loop(chat, c, "enable")
    /\ UNCHANGED <<store, db, clock, last, prev, pre, submitted, kept, env, issuer, owner,
                   notice, reqs, chain>>

\* the steps of the handler of connection c
ws(c) == ws_send(c) \/ ws_generate(c) \/ ws_reply(c) \/ ws_sleep(c)

NextChat ==
    \/ \E c \in Conns : on_conn(c)
    \/ \E c \in Conns : on_disconn(c)
    \/ \E c \in Conns, msg \in Msgs : ws_recv(c, msg)
    \/ \E c \in Conns : ws_send(c)
    \/ \E c \in Conns : ws_generate(c)
    \/ \E c \in Conns : ws_reply(c)
    \/ \E c \in Conns : ws_sleep(c)

\* the event loop runs every handler that can resume: sends, the thread and
\* the sleep all complete
SpecChat == Init /\ [][NextChat]_vars /\ \A c \in Conns : WF_vars(ws(c))

\* C32: after the system entry the conversation alternates user and
\* assistant entries, and every assistant entry is the response (the model's
\* answer or an error message) to the user entry right before it.
C32_ConversationAlternates ==
    \A j \in 2..Len(chat.conversation) :
        IF j % 2 = 0
        THEN chat.conversation[j].role = "user"
        ELSE /\ chat.conversation[j].role = "assistant"
             /\ chat.conversation[j - 1].role = "user"
             /\ chat.conversation[j].content
                    \in chat_with_ollama(SubSeq(chat.conversation, 1, j - 1))

\* every connected browser shows the input group in the given state
AllInputs(state) ==
    \A k \in 1..Len(chat.users) : chat.input[chat.users[k]] = state

\* C33: for every non-empty message, when the disabling broadcast is over and
\* the model is called, the input group of every connected user is disabled;
\* and once the model is called, the handler eventually ends with the input
\* group of every connected user enabled, whatever the model call returns and
\* whichever users connect or disconnect meanwhile.
C33_InputDisabledThenReenabled ==
    /\ [][\A c \in Conns :
              (chat.ws[c].pc = "disable" /\ chat'.ws[c].pc = "generate") =>
                  \A k \in 1..Len(chat'.users) : chat'.input[chat'.users[k]] = "disabled"]_vars
    /\ \A c \in Conns :
           (chat.ws[c].pc = "generate") ~> (chat.ws[c].pc = "idle" /\ AllInputs("enabled"))

====
